---- MODULE Spec2Model ----
(***************************************************************************)
(* The prediction orchestration pipeline of delfta/calculator.py:          *)
(* DelftaCalculator._preprocess, _get_xtb_props, _get_preds, predict and   *)
(* _predict_batch, as a state machine whose steps are the stages of one    *)
(* predict call.                                                           *)
(*                                                                         *)
(* Python indices are kept 0-based where the code stores them (fatal,      *)
(* idx_*, batch_ptr); TLA+ sequences are 1-based, so position idx of a     *)
(* Python list is element idx + 1 of the sequence.                         *)
(***************************************************************************)
EXTENDS Integers, Sequences, FiniteSets, TLC

\* Longest list or stream handed to predict.
MaxLen == 3
\* Largest batch_size handed to predict.
MaxBatch == 2

VARIABLES
    self,          \* the calculator's fields set by __init__
    pc,            \* position inside the running call
    streaming,     \* TRUE when the call entered through _predict_batch
    original,      \* the caller's argument as handed in (list or stream)
    input_,        \* predict's input_ (the list, or the current chunk)
    batch_size,    \* predict's batch_size
    generator,     \* items of the stream not yet pulled
    done_flag,     \* _predict_batch's done_flag
    pulled,        \* ids of the stream items returned by next(generator)
    chunks,        \* the chunks _predict_batch handed to predict
    preds_batch,   \* _predict_batch's preds_batch
    pre,           \* locals of _preprocess at its return
    mols,          \* predict's mols (good_mols)
    fatal,         \* predict's fatal
    xtb_calls,     \* molecules handed to run_xtb_calc, in call order
    xtb_props,     \* predict's xtb_props
    loader,        \* the batches of the DataLoader over mols
    model_runs,    \* the models handed to _get_preds
    preds,         \* predict's preds
    dense,         \* predict's preds_filtered after the delta correction
    result,        \* the mapping the call returned
    error          \* message of the exception the call raised

vars == <<self, pc, streaming, original, input_, batch_size, generator,
          done_flag, pulled, chunks, preds_batch, pre, mols, fatal, xtb_calls,
          xtb_props, loader, model_runs, preds, dense, result, error>>

----------------------------------------------------------------------------
(* Values *)

Range(s) == {s[i] : i \in DOMAIN s}

RECURSIVE Flatten(_)
Flatten(ss) == IF ss = <<>> THEN <<>> ELSE Head(ss) \o Flatten(Tail(ss))

Min(a, b) == IF a < b THEN a ELSE b

\* A finite float32 value.
F(v) == [nan |-> FALSE, v |-> v]

PLACEHOLDER == [nan |-> TRUE, v |-> 0]

\* Float addition: NaN is absorbing.
FAdd(a, b) == IF a.nan \/ b.nan THEN PLACEHOLDER ELSE F(a.v + b.v)

\* A numpy array of at most one dimension: ndim 0 holds one element.
Arr0(x) == [ndim |-> 0, data |-> <<x>>]
Arr1(xs) == [ndim |-> 1, data |-> xs]

_ALLTASKS == <<"E_form", "E_homo", "E_lumo", "E_gap", "dipole", "charges">>

MULTITASK_ENDPOINTS == [E_homo |-> 0, E_lumo |-> 1, E_gap |-> 2, dipole |-> 3]

QMUGS_ATOM_DICT == {1, 6, 7, 8, 9, 15, 16, 17, 35, 53}

EmptyDict == [k \in {} |-> <<>>]

----------------------------------------------------------------------------
(* Molecules: the capabilities of pybel.Molecule the calculator uses.       *)
(* heavy: atomic numbers of the non-hydrogen atoms; nh: explicit hydrogens; *)
(* fullH: hydrogens of the fully hydrogenated molecule; id: the object's    *)
(* identity.                                                                *)

Mol(isMol, heavy, nh, fullH, charge, dim) ==
    [isMol |-> isMol, heavy |-> heavy, nh |-> nh, fullH |-> fullH,
     charge |-> charge, dim |-> dim, id |-> 0]

\* mol.atoms, as atomic numbers.
atoms(mol) == mol.heavy \o [i \in 1..mol.nh |-> 1]

\* pybel.Molecule.addh, removeh and make3D (make3D adds the hydrogens).
addh(mol) == [mol EXCEPT !.nh = mol.fullH]
removeh(mol) == [mol EXCEPT !.nh = 0]
make3D(mol) == [addh(mol) EXCEPT !.dim = 3]

NotAMolecule == Mol(FALSE, <<>>, 0, 0, 0, 0)
BadAtomCharged == Mol(TRUE, <<6, 99>>, 0, 0, 1, 2)
Charged2DNoH == Mol(TRUE, <<7>>, 0, 4, 1, 2)
Good3D == Mol(TRUE, <<9>>, 1, 1, 0, 3)
Flat2DNoH == Mol(TRUE, <<8>>, 0, 2, 0, 2)
Bare3DNoH == Mol(TRUE, <<6, 7, 8>>, 0, 3, 0, 3)

\* The molecules a list is drawn from.
Kinds == {NotAMolecule, BadAtomCharged, Charged2DNoH, Good3D, Flat2DNoH,
          Bare3DNoH}

\* The molecules a stream is drawn from.
StreamKinds == {Charged2DNoH, Good3D, Flat2DNoH}

\* A list of molecule objects: each position is an object of its own.
Objects(kinds) == [i \in DOMAIN kinds |-> [kinds[i] EXCEPT !.id = i]]

Lists(K, lo) == UNION {[1..n -> K] : n \in lo..MaxLen}

----------------------------------------------------------------------------
(* __init__ *)

ModelGroup(task) ==
    IF task \in DOMAIN MULTITASK_ENDPOINTS THEN "multitask"
    ELSE IF task = "charges" THEN "charges"
    ELSE "single_energy"

\* A model identifier: <<task group, mode>> stands for "group_mode".
ModelName(task, delta) ==
    <<ModelGroup(task), IF delta THEN "delta" ELSE "direct">>

Calculator(tasks, delta, force3d, addh_) ==
    [tasks |-> tasks,
     delta |-> delta,
     multitasks |-> SelectSeq(tasks, LAMBDA t : t \in DOMAIN MULTITASK_ENDPOINTS),
     force3d |-> force3d,
     addh |-> addh_,
     models |-> {ModelName(tasks[i], delta) : i \in DOMAIN tasks}]

\* The task lists calculators are built with.
TaskLists == {<<"charges">>, _ALLTASKS}

----------------------------------------------------------------------------
(* The validator *)

_molcheck(mol) == mol.isMol /\ Len(atoms(mol)) > 0

\* Returns the answer and the molecule as the check left it.
_3dcheck(mol) ==
    IF mol.dim # 3
    THEN [ret |-> FALSE, mol |-> IF self.force3d THEN make3D(mol) ELSE mol]
    ELSE [ret |-> TRUE, mol |-> mol]

_atomtypecheck(mol) ==
    \A i \in DOMAIN atoms(mol) : atoms(mol)[i] \in QMUGS_ATOM_DICT

\* TRUE when the molecule is charged.
_chargecheck(mol) == mol.charge # 0

CountH(mol) == Cardinality({i \in DOMAIN atoms(mol) : atoms(mol)[i] = 1})

_hydrogencheck(mol) ==
    LET nh_mol == CountH(mol)
        mol_cpy == addh(removeh(mol))
        nh_cpy == CountH(mol_cpy)
    IN  nh_mol = nh_cpy

\* The emptiness guard left out.
NoMolecules_Never(ms) == FALSE

\* if len(mols) == 0: raise ValueError("No molecules provided.")
NoMolecules(ms) == Len(ms) = 0

PreprocessStart(ms) ==
    [mols |-> ms,
     idx_non_valid_mols |-> <<>>, idx_non_valid_atypes |-> <<>>,
     idx_charged |-> <<>>, idx_no3d |-> <<>>, idx_noh |-> <<>>,
     fatal |-> <<>>, calls |-> <<>>]

\* The combined rule without its addh condition.
CombinedFatal_IgnoreAddh(has_3d, has_h) == ~has_3d /\ ~has_h

\* The last check's verdict: geometry and hydrogens missing, addh disabled.
CombinedFatal(has_3d, has_h) == ~has_3d /\ ~has_h /\ ~self.addh

\* The loop body without its `continue` statements: every check runs and
\* every failed fatal check records the position.
PreprocessStep_NoContinue(st, idx) ==
    LET mol == st.mols[idx + 1]
        bad_mol == ~_molcheck(mol)
        bad_atype == ~_atomtypecheck(mol)
        charged == _chargecheck(mol)
        r3d == _3dcheck(mol)
        has_3d == r3d.ret
        has_h == _hydrogencheck(r3d.mol)
        hit(flag) == IF flag THEN <<idx>> ELSE <<>>
    IN  [st EXCEPT
           !.calls = @ \o << <<idx, "_molcheck">>, <<idx, "_atomtypecheck">>,
                             <<idx, "_chargecheck">>, <<idx, "_3dcheck">>,
                             <<idx, "_hydrogencheck">> >>,
           !.mols[idx + 1] = r3d.mol,
           !.idx_non_valid_mols = @ \o hit(bad_mol),
           !.idx_non_valid_atypes = @ \o hit(bad_atype),
           !.idx_charged = @ \o hit(charged),
           !.idx_no3d = @ \o hit(~has_3d),
           !.idx_noh = @ \o hit(~has_h),
           !.fatal = @ \o hit(bad_mol) \o hit(bad_atype) \o hit(charged)
                       \o hit(CombinedFatal(has_3d, has_h))]

\* One iteration of the loop over enumerate(mols).
PreprocessStep(st, idx) ==
    LET mol == st.mols[idx + 1]
        c1 == Append(st.calls, <<idx, "_molcheck">>)
        c2 == Append(c1, <<idx, "_atomtypecheck">>)
        c3 == Append(c2, <<idx, "_chargecheck">>)
        c5 == c3 \o << <<idx, "_3dcheck">>, <<idx, "_hydrogencheck">> >>
    IN  IF ~_molcheck(mol)
        THEN [st EXCEPT !.calls = c1,
                        !.idx_non_valid_mols = Append(@, idx),
                        !.fatal = Append(@, idx)]
        ELSE IF ~_atomtypecheck(mol)
        THEN [st EXCEPT !.calls = c2,
                        !.idx_non_valid_atypes = Append(@, idx),
                        !.fatal = Append(@, idx)]
        ELSE IF _chargecheck(mol)
        THEN [st EXCEPT !.calls = c3,
                        !.idx_charged = Append(@, idx),
                        !.fatal = Append(@, idx)]
        ELSE LET r3d == _3dcheck(mol)
                 has_3d == r3d.ret
                 has_h == _hydrogencheck(r3d.mol)
             IN  [st EXCEPT
                    !.calls = c5,
                    !.mols[idx + 1] = r3d.mol,
                    !.idx_no3d = IF has_3d THEN @ ELSE Append(@, idx),
                    !.idx_noh = IF has_h THEN @ ELSE Append(@, idx),
                    !.fatal = IF CombinedFatal(has_3d, has_h)
                              THEN Append(@, idx) ELSE @]

RECURSIVE PreprocessLoop(_, _)
PreprocessLoop(st, idx) ==
    IF idx >= Len(st.mols) THEN st
    ELSE PreprocessLoop(PreprocessStep(st, idx), idx + 1)

\* good_mols with fatal read as 1-based positions.
GoodMols_OneBased(ms, fatal_) ==
    LET keep == {i \in DOMAIN ms : i \notin Range(fatal_)}
        RECURSIVE Pick(_)
        Pick(i) == IF i > Len(ms) THEN <<>>
                   ELSE (IF i \in keep THEN <<ms[i]>> ELSE <<>>) \o Pick(i + 1)
    IN  Pick(1)

\* good_mols: the molecules whose position is not in fatal, in input order.
GoodMols(ms, fatal_) ==
    LET keep == {i \in DOMAIN ms : (i - 1) \notin Range(fatal_)}
        RECURSIVE Pick(_)
        Pick(i) == IF i > Len(ms) THEN <<>>
                   ELSE (IF i \in keep THEN <<ms[i]>> ELSE <<>>) \o Pick(i + 1)
    IN  Pick(1)

\* _preprocess on a non-empty list: its locals, with good_mols.
_preprocess(ms) ==
    LET st == PreprocessLoop(PreprocessStart(ms), 0)
    IN  st @@ [good_mols |-> GoodMols(st.mols, st.fatal)]

----------------------------------------------------------------------------
(* The baseline provider.  run_xtb_calc is external: its values are a fixed *)
(* function of the molecule object and the property.                        *)

TaskCode(prop) == CHOOSE i \in DOMAIN _ALLTASKS : _ALLTASKS[i] = prop

run_xtb_calc(mol) ==
    [prop \in Range(_ALLTASKS) |->
        IF prop = "charges"
        THEN [j \in 1..Len(atoms(mol)) |-> F(1000 * mol.id + 60 + j)]
        ELSE F(1000 * mol.id + 10 * TaskCode(prop))]

\* xtb_props[prop]: one entry per molecule, in call order (a defaultdict:
\* every property reads as the empty list when no molecule was run).
_get_xtb_props(ms) ==
    [prop \in Range(_ALLTASKS) |->
        [i \in DOMAIN ms |-> run_xtb_calc(ms[i])[prop]]]

----------------------------------------------------------------------------
(* The batch runner.  The network is external: its outputs are a fixed      *)
(* function of the molecule object.                                         *)

\* DataLoader(DeltaDataset(mols), batch_size, shuffle=False): consecutive
\* batches of batch_size molecules, the last one possibly shorter.
RECURSIVE DataLoader(_, _)
DataLoader(ms, bs) ==
    IF ms = <<>> THEN <<>>
    ELSE LET k == Min(bs, Len(ms))
         IN  <<SubSeq(ms, 1, k)>> \o DataLoader(SubSeq(ms, k + 1, Len(ms)), bs)

\* batch.ptr: cumulative atom counts, batch molecule count + 1 entries.
RECURSIVE Ptr(_)
Ptr(batch) ==
    IF batch = <<>> THEN <<0>>
    ELSE LET p == Ptr(SubSeq(batch, 1, Len(batch) - 1))
         IN  Append(p, p[Len(p)] + Len(atoms(batch[Len(batch)])))

\* model(batch): per-atom values for the charges model, one row per
\* molecule otherwise (1 column for single_energy, 4 for multitask).
EGNN(model_name, batch) ==
    IF model_name[1] = "charges"
    THEN Flatten([i \in DOMAIN batch |->
             [j \in 1..Len(atoms(batch[i])) |-> F(100 * batch[i].id + j)]])
    ELSE IF model_name[1] = "single_energy"
    THEN [i \in DOMAIN batch |-> <<F(100 * batch[i].id + 7)>>]
    ELSE [i \in DOMAIN batch |->
             [c \in 1..4 |-> F(100 * batch[i].id + 10 + c)]]

_get_preds(loader_, model_name) ==
    [y_hats |-> [b \in DOMAIN loader_ |-> EGNN(model_name, loader_[b])],
     g_ptrs |-> [b \in DOMAIN loader_ |-> Ptr(loader_[b])]]

norm == [direct |-> [scale |-> 2, location |-> 1],
         delta |-> [scale |-> 3, location |-> 2]]

_inv_scale(x, norm_dict) ==
    IF x.nan THEN x ELSE F(x.v * norm_dict.scale + norm_dict.location)

----------------------------------------------------------------------------
(* The aggregator *)

\* y_hat[batch_idx][batch_ptr[idx] : batch_ptr[idx + 1]] for every idx.
SplitByPtr(y, batch_ptr) ==
    [k \in 1..(Len(batch_ptr) - 1) |->
        Arr1(SubSeq(y, batch_ptr[k] + 1, batch_ptr[k + 1]))]

\* The body of the loop over self.models for one model: ok is FALSE where
\* np.vstack raises on an empty list of batches.
ModelPreds(model_name, loader_) ==
    LET p == _get_preds(loader_, model_name)
    IN  IF model_name[1] = "charges"
        THEN [ok |-> TRUE,
              val |-> Flatten([b \in DOMAIN loader_ |->
                          SplitByPtr(p.y_hats[b], p.g_ptrs[b])])]
        ELSE IF p.y_hats = <<>>
        THEN [ok |-> FALSE, val |-> <<>>]
        ELSE LET rows == Flatten(p.y_hats)
             IN  [ok |-> TRUE,
                  val |-> IF model_name[1] = "multitask"
                          THEN [i \in DOMAIN rows |->
                                  [c \in DOMAIN rows[i] |->
                                      _inv_scale(rows[i][c], norm[model_name[2]])]]
                          ELSE rows]

\* The loop over self.models in the order the set is iterated, up to the
\* first model that raises.
RECURSIVE RunModelsFrom(_, _, _)
RunModelsFrom(order, loader_, acc) ==
    IF order = <<>> THEN acc
    ELSE LET m == Head(order)
             r == ModelPreds(m, loader_)
             runs == Append(acc.runs, m)
         IN  IF ~r.ok
             THEN [acc EXCEPT !.ok = FALSE, !.runs = runs]
             ELSE RunModelsFrom(Tail(order), loader_,
                      [acc EXCEPT !.runs = runs,
                                  !.preds = @ @@ (m :> r.val)])

Orders(S) ==
    {o \in [1..Cardinality(S) -> S] : \A i, j \in DOMAIN o : i # j => o[i] # o[j]}

\* preds[model_name].squeeze() of an (n, 1) array, n >= 1.
Squeeze(rows) ==
    IF Len(rows) = 1 THEN Arr0(rows[1][1])
    ELSE Arr1([i \in DOMAIN rows |-> rows[i][1]])

\* preds[model_name][:, col]
Column(rows, col) == Arr1([i \in DOMAIN rows |-> rows[i][col + 1]])

\* preds_filtered: task -> dense (valid molecules only) result.
Filter(preds_) ==
    LET keys == {t \in Range(self.tasks) :
                    ModelName(t, self.delta) \in DOMAIN preds_}
    IN  [t \in keys |->
            LET val == preds_[ModelName(t, self.delta)]
            IN  IF t = "E_form" THEN Squeeze(val)
                ELSE IF t = "charges" THEN val
                ELSE Column(val, MULTITASK_ENDPOINTS[t])]

----------------------------------------------------------------------------
(* The delta corrector *)

\* numpy addition of two arrays, a 0-d one broadcast over the other.
ArrAdd(a, b) ==
    IF a.ndim = 0 THEN [b EXCEPT !.data = [i \in DOMAIN @ |-> FAdd(a.data[1], @[i])]]
    ELSE IF b.ndim = 0 THEN [a EXCEPT !.data = [i \in DOMAIN @ |-> FAdd(@[i], b.data[1])]]
    ELSE Arr1([i \in DOMAIN a.data |-> FAdd(a.data[i], b.data[i])])

\* zip(delta_arr, xtb_props[prop]): pairs up to the shorter length.
DeltaCorrect(filtered, xtb) ==
    [prop \in DOMAIN filtered |->
        IF prop = "charges"
        THEN [i \in 1..Min(Len(filtered[prop]), Len(xtb[prop])) |->
                 ArrAdd(filtered[prop][i], Arr1(xtb[prop][i]))]
        ELSE ArrAdd(filtered[prop], Arr1(xtb[prop]))]

----------------------------------------------------------------------------
(* The result assembler *)

\* val.pop(): the last entry of the list is removed and returned.
Pop(val) == [ret |-> val[Len(val)], rest |-> SubSeq(val, 1, Len(val) - 1)]

\* The reinsertion that emits the dense entries first and pads the rest of
\* the positions with placeholders, whatever fatal holds.
RECURSIVE Reinsert_Pad(_, _, _, _, _)
Reinsert_Pad(key, val, idx, n, fatal_) ==
    IF idx >= n THEN <<>>
    ELSE IF val = <<>>
    THEN <<IF key = "charges" THEN Arr0(PLACEHOLDER) ELSE PLACEHOLDER>>
         \o Reinsert_Pad(key, val, idx + 1, n, fatal_)
    ELSE <<val[Len(val)]>>
         \o Reinsert_Pad(key, SubSeq(val, 1, Len(val) - 1), idx + 1, n, fatal_)

\* The loop over range(len(input_)) for one key, from position idx on.
RECURSIVE Reinsert(_, _, _, _, _)
Reinsert(key, val, idx, n, fatal_) ==
    IF idx >= n THEN <<>>
    ELSE IF idx \in Range(fatal_)
    THEN <<IF key = "charges" THEN Arr0(PLACEHOLDER) ELSE PLACEHOLDER>>
         \o Reinsert(key, val, idx + 1, n, fatal_)
    ELSE LET p == Pop(val)
         IN  <<p.ret>> \o Reinsert(key, p.rest, idx + 1, n, fatal_)

\* val.tolist() of a 0-d array is a float, which has no pop().
PopRaises(key, val, n, fatal_) ==
    /\ key # "charges"
    /\ val.ndim = 0
    /\ \E idx \in 0..(n - 1) : idx \notin Range(fatal_)

\* The list preds_final[key] is built from.
ToList(key, val) == IF key = "charges" THEN val ELSE val.data

InsertPlaceholders(dense_, n, fatal_) ==
    IF \E key \in DOMAIN dense_ : PopRaises(key, dense_[key], n, fatal_)
    THEN [ok |-> FALSE, final |-> EmptyDict]
    ELSE [ok |-> TRUE,
          final |-> [key \in DOMAIN dense_ |->
                       Reinsert(key, ToList(key, dense_[key]), 0, n, fatal_)]]

----------------------------------------------------------------------------
(* The state machine *)

NoPre == PreprocessStart(<<>>) @@ [good_mols |-> <<>>]

Init ==
    /\ self \in {Calculator(t, d, f, a) :
                    t \in TaskLists, d \in BOOLEAN, f \in BOOLEAN, a \in BOOLEAN}
    /\ pc = "idle"
    /\ streaming = FALSE
    /\ original = <<>>
    /\ input_ = <<>>
    /\ batch_size = 1
    /\ generator = <<>>
    /\ done_flag = FALSE
    /\ pulled = <<>>
    /\ chunks = <<>>
    /\ preds_batch = <<>>
    /\ pre = NoPre
    /\ mols = <<>>
    /\ fatal = <<>>
    /\ xtb_calls = <<>>
    /\ xtb_props = EmptyDict
    /\ loader = <<>>
    /\ model_runs = {}
    /\ preds = EmptyDict
    /\ dense = EmptyDict
    /\ result = EmptyDict
    /\ error = ""

streamVars == <<streaming, original, batch_size, generator, done_flag, pulled,
                chunks, preds_batch>>
stageVars == <<pre, mols, fatal, xtb_calls, xtb_props, loader, model_runs,
               preds, dense>>

\* predict(input_, batch_size) with a list.
PredictList ==
    /\ pc = "idle"
    /\ \E kinds \in Lists(Kinds, 0), bs \in 1..MaxBatch :
          /\ original' = Objects(kinds)
          /\ input_' = Objects(kinds)
          /\ batch_size' = bs
    /\ pc' = "preprocess"
    /\ UNCHANGED <<self, streaming, generator, done_flag, pulled, chunks,
                   preds_batch, result, error>>
    /\ UNCHANGED stageVars

\* predict(input_, batch_size) with a generator: _predict_batch up to its loop.
PredictGenerator ==
    /\ pc = "idle"
    /\ streaming' = TRUE
    /\ \E kinds \in Lists(StreamKinds, 0), bs \in 1..MaxBatch :
          /\ original' = Objects(kinds)
          /\ generator' = Objects(kinds)
          /\ batch_size' = bs
    /\ preds_batch' = <<>>
    /\ done_flag' = FALSE
    /\ pc' = "pull"
    /\ UNCHANGED <<self, input_, pulled, chunks, result, error>>
    /\ UNCHANGED stageVars

\* One pass of the while loop of _predict_batch up to its call of predict.
PullChunk ==
    /\ pc = "pull"
    /\ LET k == Min(batch_size, Len(generator))
           chunk == SubSeq(generator, 1, k)
       IN  /\ done_flag' = (Len(generator) < batch_size)
           /\ generator' = SubSeq(generator, k + 1, Len(generator))
           /\ pulled' = pulled \o [i \in DOMAIN chunk |-> chunk[i].id]
           /\ chunks' = Append(chunks, [i \in DOMAIN chunk |-> chunk[i].id])
           /\ input_' = chunk
    /\ pre' = NoPre
    /\ mols' = <<>>
    /\ fatal' = <<>>
    /\ xtb_calls' = <<>>
    /\ xtb_props' = EmptyDict
    /\ loader' = <<>>
    /\ model_runs' = {}
    /\ preds' = EmptyDict
    /\ dense' = EmptyDict
    /\ pc' = "preprocess"
    /\ UNCHANGED <<self, streaming, original, batch_size, preds_batch, result,
                   error>>

\* mols, fatal = self._preprocess(input_)
Preprocess ==
    /\ pc = "preprocess"
    /\ IF NoMolecules(input_)
       THEN /\ error' = "No molecules provided."
            /\ pc' = "raised"
            /\ UNCHANGED <<input_, pre, mols, fatal>>
       ELSE LET r == _preprocess(input_)
            IN  /\ pre' = r
                /\ input_' = r.mols
                /\ mols' = r.good_mols
                /\ fatal' = r.fatal
                /\ pc' = "xtb"
                /\ UNCHANGED error
    /\ UNCHANGED <<self, result, xtb_calls, xtb_props, loader, model_runs,
                   preds, dense>>
    /\ UNCHANGED streamVars

\* if self.delta: xtb_props = self._get_xtb_props(mols)
GetXtbProps ==
    /\ pc = "xtb"
    /\ IF self.delta
       THEN /\ xtb_calls' = mols
            /\ xtb_props' = _get_xtb_props(mols)
       ELSE UNCHANGED <<xtb_calls, xtb_props>>
    /\ pc' = "models"
    /\ UNCHANGED <<self, input_, result, error, pre, mols, fatal, loader,
                   model_runs, preds, dense>>
    /\ UNCHANGED streamVars

\* The DataLoader and the loop over self.models.
RunModels ==
    /\ pc = "models"
    /\ \E order \in Orders(self.models) :
        LET ld == DataLoader(mols, batch_size)
            r == RunModelsFrom(order, ld,
                     [ok |-> TRUE, runs |-> <<>>, preds |-> EmptyDict])
        IN  /\ loader' = ld
            /\ model_runs' = Range(r.runs)
            /\ preds' = r.preds
            /\ IF r.ok
               THEN pc' = "assemble" /\ UNCHANGED error
               ELSE /\ pc' = "raised"
                    /\ error' = "need at least one array to concatenate"
    /\ UNCHANGED <<self, input_, result, pre, mols, fatal, xtb_calls,
                   xtb_props, dense>>
    /\ UNCHANGED streamVars

\* preds_filtered, the delta correction, the placeholders and the return of
\* predict (into preds_batch when _predict_batch made the call).
Finish ==
    /\ pc = "assemble"
    /\ LET filtered == Filter(preds)
           d == IF self.delta THEN DeltaCorrect(filtered, xtb_props)
                ELSE filtered
           a == InsertPlaceholders(d, Len(input_), fatal)
       IN  /\ dense' = d
           /\ IF ~a.ok
              THEN /\ pc' = "raised"
                   /\ error' = "'float' object has no attribute 'pop'"
                   /\ UNCHANGED <<result, preds_batch>>
              ELSE IF streaming
              THEN /\ preds_batch' = Append(preds_batch, a.final)
                   /\ pc' = IF done_flag THEN "collect" ELSE "pull"
                   /\ UNCHANGED <<result, error>>
              ELSE /\ result' = a.final
                   /\ pc' = "returned"
                   /\ UNCHANGED <<preds_batch, error>>
    /\ UNCHANGED <<self, input_, pre, mols, fatal, xtb_calls, xtb_props,
                   loader, model_runs, preds>>
    /\ UNCHANGED <<streaming, original, batch_size, generator, done_flag,
                   pulled, chunks>>

\* batch[pred_k].tolist() on the list predict returned raises.
ToListRaises(pred_keys) == \E pred_k \in pred_keys : pred_k # "charges"

\* The accumulation of preds_batch after the while loop of _predict_batch.
Collect ==
    /\ pc = "collect"
    /\ LET pred_keys == DOMAIN preds_batch[1]
       IN  IF ToListRaises(pred_keys)
           THEN /\ pc' = "raised"
                /\ error' = "'list' object has no attribute 'tolist'"
                /\ UNCHANGED result
           ELSE /\ pc' = "returned"
                /\ result' = [pred_k \in pred_keys |->
                                Flatten([b \in DOMAIN preds_batch |->
                                            preds_batch[b][pred_k]])]
                /\ UNCHANGED error
    /\ UNCHANGED <<self, input_>>
    /\ UNCHANGED streamVars
    /\ UNCHANGED stageVars

Next ==
    \/ PredictList
    \/ PredictGenerator
    \/ PullChunk
    \/ Preprocess
    \/ GetXtbProps
    \/ RunModels
    \/ Finish
    \/ Collect

Spec == Init /\ [][Next]_vars

----------------------------------------------------------------------------
(* Properties *)

\* The call has ended, by a return or by an exception.
Ended == pc \in {"returned", "raised"}

NonFatal(i) == (i - 1) \notin Range(fatal)

\* The number of non-fatal positions among the first i.
Rank(i) == Cardinality({j \in 1..i : NonFatal(j)})

PlaceholderOf(key) == IF key = "charges" THEN Arr0(PLACEHOLDER) ELSE PLACEHOLDER

\* What the network learned for one molecule and one task, as aggregated.
LearnedDelta(mol, task) ==
    LET m == ModelName(task, self.delta)
        y == EGNN(m, <<mol>>)
    IN  IF task = "charges" THEN y
        ELSE IF task = "E_form" THEN y[1][1]
        ELSE _inv_scale(y[1][MULTITASK_ENDPOINTS[task] + 1], norm[m[2]])

\* C1: for every list of length N >= 1, both modes, every task set and every
\* set of fatal positions, predict returns normally and every returned task's
\* sequence has length N.
C1_OutputLength ==
    (~streaming /\ Ended /\ Len(original) >= 1) =>
        /\ pc = "returned"
        /\ DOMAIN result = Range(self.tasks)
        /\ \A key \in DOMAIN result : Len(result[key]) = Len(original)

\* C2: the reassembly consumes the dense entries in forward order: the k-th
\* non-fatal position receives the k-th dense entry, for every task.
C2_ForwardOrder ==
    (~streaming /\ pc = "returned") =>
        \A key \in DOMAIN result : \A i \in 1..Len(input_) :
            NonFatal(i) => result[key][i] = ToList(key, dense[key])[Rank(i)]

\* C3: at every position the validator marked fatal the output of predict is
\* the placeholder for every requested task, and every other position holds
\* an entry of the dense result, never the placeholder.
C3_FatalPlaceholder ==
    (~streaming /\ pc = "returned") =>
        /\ DOMAIN result = Range(self.tasks)
        /\ \A key \in DOMAIN result : \A i \in 1..Len(input_) :
            IF NonFatal(i)
            THEN /\ result[key][i] \in Range(ToList(key, dense[key]))
                 /\ result[key][i] # PlaceholderOf(key)
            ELSE result[key][i] = PlaceholderOf(key)

C3_Witness ==
    /\ ~streaming
    /\ pc = "returned"
    /\ Len(input_) = 3
    /\ fatal = <<1>>
    /\ "E_form" \in DOMAIN result
    /\ "charges" \in DOMAIN result

\* C4: for a stream of M >= 1 items and any batch_size, _predict_batch ends
\* normally, pulls every item exactly once, runs predict only on chunks of
\* 1..batch_size consecutive items and returns per task M entries (the
\* order of the entries inside a chunk is the subject of C2).
C4_StreamComplete ==
    (streaming /\ Ended /\ Len(original) >= 1) =>
        /\ pc = "returned"
        /\ pulled = [i \in 1..Len(original) |-> i]
        /\ Flatten(chunks) = pulled
        /\ \A c \in DOMAIN chunks :
              Len(chunks[c]) >= 1 /\ Len(chunks[c]) <= batch_size
        /\ \A key \in DOMAIN result : Len(result[key]) = Len(original)

\* The check names run on position idx, in call order.
ChecksOf(idx) ==
    LET hits == SelectSeq(pre.calls, LAMBDA c : c[1] = idx)
    IN  [k \in DOMAIN hits |-> hits[k][2]]

Occurrences(s, x) == Cardinality({k \in DOMAIN s : s[k] = x})

\* C5: the checks run per molecule in the order structure, atom type, charge,
\* geometry, hydrogens and stop at the first fatal one; every fatal position
\* is in the fatal list once and in at most one of the three fatal categories.
C5_ShortCircuit ==
    \A idx \in 0..(Len(pre.mols) - 1) :
        /\ ChecksOf(idx) =
             IF idx \in Range(pre.idx_non_valid_mols) THEN <<"_molcheck">>
             ELSE IF idx \in Range(pre.idx_non_valid_atypes)
             THEN <<"_molcheck", "_atomtypecheck">>
             ELSE IF idx \in Range(pre.idx_charged)
             THEN <<"_molcheck", "_atomtypecheck", "_chargecheck">>
             ELSE <<"_molcheck", "_atomtypecheck", "_chargecheck", "_3dcheck",
                    "_hydrogencheck">>
        /\ Occurrences(pre.fatal, idx) <= 1
        /\ Occurrences(pre.idx_non_valid_mols \o pre.idx_non_valid_atypes
                          \o pre.idx_charged, idx) <= 1
        /\ Occurrences(pre.idx_non_valid_mols \o pre.idx_non_valid_atypes
                          \o pre.idx_charged, idx) = 1
              => idx \in Range(pre.fatal)

C5_Witness ==
    /\ pre.idx_non_valid_mols = <<0>>
    /\ pre.idx_non_valid_atypes = <<1>>
    /\ pre.idx_charged = <<2>>
    /\ pre.fatal = <<0, 1, 2>>
    /\ pre.mols[2].charge # 0

\* C6: in delta mode the value returned at a valid molecule's position is,
\* for every non-charge task, that molecule's learned delta plus that
\* molecule's baseline.
C6_DeltaSum ==
    (~streaming /\ pc = "returned" /\ self.delta) =>
        \A key \in DOMAIN result \ {"charges"} : \A i \in 1..Len(input_) :
            NonFatal(i) =>
                result[key][i] = FAdd(LearnedDelta(input_[i], key),
                                      run_xtb_calc(input_[i])[key])

\* C7: in delta mode the charges array returned at a valid molecule's
\* position has that molecule's atom count and is, element by element, that
\* molecule's learned delta plus that molecule's baseline.
C7_ChargesDeltaSum ==
    (~streaming /\ pc = "returned" /\ self.delta /\ "charges" \in DOMAIN result) =>
        \A i \in 1..Len(input_) :
            NonFatal(i) =>
                LET got == result["charges"][i].data
                    d == LearnedDelta(input_[i], "charges")
                    x == run_xtb_calc(input_[i])["charges"]
                IN  /\ Len(got) = Len(atoms(input_[i]))
                    /\ \A j \in DOMAIN got : got[j] = FAdd(d[j], x[j])

\* C8: predict with an empty list raises "No molecules provided." before the
\* baseline or any model is started, and returns no result.
C8_EmptyRaises ==
    (~streaming /\ original = <<>> /\ pc \notin {"idle", "preprocess"}) =>
        /\ pc = "raised"
        /\ error = "No molecules provided."
        /\ xtb_calls = <<>> /\ xtb_props = EmptyDict
        /\ loader = <<>> /\ model_runs = {} /\ preds = EmptyDict
        /\ result = EmptyDict

C8_Witness == ~streaming /\ original = <<>> /\ pc = "raised"

\* Position idx passed the structure, atom-type and charge checks.
PassedFatalChecks(idx) ==
    idx \notin Range(pre.idx_non_valid_mols \o pre.idx_non_valid_atypes
                        \o pre.idx_charged)

\* The molecule at position idx of the list being validated, as handed in.
HandedIn(idx) == original[pre.mols[idx + 1].id]

\* C9: a molecule that passed the structure, atom-type and charge checks is
\* fatal iff it was not 3D when checked, the hydrogen check reported missing
\* hydrogens and addh is disabled; with addh enabled it is never fatal.
C9_CombinedFatal ==
    \A idx \in 0..(Len(pre.mols) - 1) :
        PassedFatalChecks(idx) =>
            /\ idx \in Range(pre.fatal) <=>
                  /\ HandedIn(idx).dim # 3
                  /\ idx \in Range(pre.idx_noh)
                  /\ ~self.addh
            /\ (idx \in Range(pre.idx_no3d)) <=> (HandedIn(idx).dim # 3)
            /\ self.addh => idx \notin Range(pre.fatal)

C9_Witness ==
    /\ ~self.addh
    /\ \E idx \in 0..(Len(pre.mols) - 1) :
          PassedFatalChecks(idx) /\ idx \in Range(pre.fatal)
    /\ \E idx \in 0..(Len(pre.mols) - 1) :
          /\ PassedFatalChecks(idx) /\ idx \notin Range(pre.fatal)
          /\ idx \in Range(pre.idx_noh)

\* C10: the valid sequence is the input with the fatal positions removed, in
\* unchanged order; the baseline provider gets exactly these molecules, once
\* each, in that order and only in delta mode, and so does the batch runner.
C10_ValidOnly ==
    /\ pc \in {"xtb", "models", "assemble", "returned"} =>
          /\ Len(mols) + Len(fatal) = Len(input_)
          /\ \A k \in DOMAIN mols :
                \E i \in DOMAIN input_ :
                    NonFatal(i) /\ Rank(i) = k /\ mols[k] = input_[i]
    /\ pc \in {"models", "assemble", "returned"} =>
          xtb_calls = IF self.delta THEN mols ELSE <<>>
    /\ pc \in {"assemble", "returned"} =>
          /\ Flatten(loader) = mols
          /\ \A i \in DOMAIN input_ :
                ~NonFatal(i) =>
                    input_[i] \notin Range(xtb_calls) \cup Range(Flatten(loader))

C10_Witness ==
    /\ pc = "assemble"
    /\ self.delta
    /\ Len(input_) = 3
    /\ fatal = <<1>>
    /\ Len(xtb_calls) = 2

\* C11: with addh enabled, a molecule that passed the fatal checks and whose
\* hydrogen check reported missing hydrogens has them added in place by
\* _preprocess, so every molecule of the returned valid sequence passes a
\* repeated hydrogen check, also when it was 3D already or force3d is off.
C11_HydrogensAdded ==
    self.addh =>
        /\ \A idx \in Range(pre.idx_noh) :
              PassedFatalChecks(idx) =>
                  CountH(pre.mols[idx + 1]) = CountH(addh(HandedIn(idx)))
        /\ \A k \in DOMAIN pre.good_mols : _hydrogencheck(pre.good_mols[k])

====
